---- MODULE Spec2Model ----
(***************************************************************************)
(* Model of internal/params/params.go of picsum-photos: resolution of the  *)
(* path and query parameters of an image request (GetParams), validation   *)
(* against an image record (Params.Validate) and computation of the output *)
(* dimensions (Params.Dimensions).                                         *)
(*                                                                         *)
(* A Go string is a sequence of one-character strings, so that parsing     *)
(* (strconv.Atoi) and lowercasing (strings.ToLower) are computed character *)
(* by character.  A *Params is a sequence of length at most one: <<>> is   *)
(* nil and <<p>> points to the record p.  An error is "nil" or the name of *)
(* one of the three package-level error values.                            *)
(***************************************************************************)
EXTENDS Integers, Sequences, FiniteSets, TLC

VARIABLES req, image, pc, width, height, extension, params, err, verr, dims

vars == <<req, image, pc, width, height, extension, params, err, verr, dims>>

(***************************************************************************)
(* Bounds of the model.                                                    *)
(***************************************************************************)
NumHandlers == 3          \* concurrently served requests
MaxBlurSample == 12       \* largest BlurAmount of a directly built Params

Handlers == 1..NumHandlers

(***************************************************************************)
(* Program constants and error values.                                     *)
(***************************************************************************)
defaultBlurAmount == 5
minBlurAmount == 1
maxBlurAmount == 10
maxImageSize == 5000

ErrInvalidSize == "Invalid size"
ErrInvalidBlurAmount == "Invalid blur amount"
ErrInvalidFileExtension == "Invalid file extension"
NoError == "nil"

(***************************************************************************)
(* Strings.                                                                *)
(***************************************************************************)
DigitChars == <<"0", "1", "2", "3", "4", "5", "6", "7", "8", "9">>
UpperChars == <<"A", "B", "C", "D", "E", "F", "G", "H", "I", "J", "K", "L", "M",
                "N", "O", "P", "Q", "R", "S", "T", "U", "V", "W", "X", "Y", "Z">>
LowerChars == <<"a", "b", "c", "d", "e", "f", "g", "h", "i", "j", "k", "l", "m",
                "n", "o", "p", "q", "r", "s", "t", "u", "v", "w", "x", "y", "z">>

EmptyString == <<>>
DotJpg == <<".", "j", "p", "g">>
DotWebp == <<".", "w", "e", "b", "p">>

IsDigit(c) == \E i \in 1..10 : DigitChars[i] = c

DigitVal(c) == (CHOOSE i \in 1..10 : DigitChars[i] = c) - 1

\* the loop n = n*10 + int(ch) of strconv.Atoi over a string of digits
RECURSIVE DecimalValue(_, _)
DecimalValue(s, n) ==
    IF s = <<>> THEN n
    ELSE DecimalValue(Tail(s), n * 10 + DigitVal(Head(s)))

\* strconv.Atoi on a string shorter than 19 bytes (its fast path, on which
\* no range error arises): an optional sign followed by at least one digit
\* and nothing else.  The empty string is a syntax error.  A failure has
\* value 0.
Atoi(s) ==
    IF Len(s) = 0 THEN [val |-> 0, ok |-> FALSE]
    ELSE LET body == IF s[1] = "-" \/ s[1] = "+" THEN Tail(s) ELSE s
         IN  IF Len(body) < 1 THEN [val |-> 0, ok |-> FALSE]
             ELSE IF \E i \in 1..Len(body) : ~IsDigit(body[i])
                  THEN [val |-> 0, ok |-> FALSE]
             ELSE LET n == DecimalValue(body, 0)
                  IN  [val |-> IF s[1] = "-" THEN -n ELSE n, ok |-> TRUE]

ToLowerChar(c) ==
    IF \E i \in 1..26 : UpperChars[i] = c
    THEN LowerChars[CHOOSE i \in 1..26 : UpperChars[i] = c]
    ELSE c

\* strings.ToLower on ASCII strings
ToLower(s) == [i \in 1..Len(s) |-> ToLowerChar(s[i])]

(***************************************************************************)
(* The request: its path variables (a map from names to strings) and its   *)
(* query (url.Values: a map from names to non-empty lists of strings).     *)
(***************************************************************************)
\* mux.Vars(r): the path variables of this request
muxVars(r) == r.vars

\* r.URL.Query()
Query(r) == r.query

\* url.Values.Get: the first value of the key, "" when there is none
Get(q, key) ==
    IF key \notin DOMAIN q THEN EmptyString
    ELSE IF Len(q[key]) = 0 THEN EmptyString
    ELSE q[key][1]

\* vars["extension"]: the zero value "" for a missing key
MapIndex(m, key) == IF key \in DOMAIN m THEN m[key] ELSE EmptyString

(***************************************************************************)
(* The resolvers.                                                          *)
(***************************************************************************)
intParam(r, name) ==
    LET vs == muxVars(r)
    IN  IF name \in DOMAIN vs
        THEN LET a == Atoi(vs[name]) IN [val |-> a.val, ok |-> a.ok]
        ELSE [val |-> -1, ok |-> FALSE]

\* width and height looked up before size
getSizeWidthFirst(r) ==
    LET w == intParam(r, "width")
        h == intParam(r, "height")
        size == intParam(r, "size")
    IN  IF w.ok /\ h.ok
        THEN [width |-> w.val, height |-> h.val, err |-> NoError]
        ELSE IF size.ok
        THEN [width |-> size.val, height |-> size.val, err |-> NoError]
        ELSE [width |-> -1, height |-> -1, err |-> ErrInvalidSize]

getSize(r) ==
    LET size == intParam(r, "size")
    IN  IF size.ok
        THEN [width |-> size.val, height |-> size.val, err |-> NoError]
        ELSE LET w == intParam(r, "width")
             IN  IF ~w.ok
                 THEN [width |-> -1, height |-> -1, err |-> ErrInvalidSize]
                 ELSE LET h == intParam(r, "height")
                      IN  IF ~h.ok
                          THEN [width |-> -1, height |-> -1,
                                err |-> ErrInvalidSize]
                          ELSE [width |-> w.val, height |-> h.val,
                                err |-> NoError]

\* the extension compared without lowercasing it
getFileExtensionCaseSensitive(r) ==
    LET val0 == MapIndex(muxVars(r), "extension")
        val == IF val0 = EmptyString THEN DotJpg ELSE val0
    IN  IF val # DotJpg /\ val # DotWebp
        THEN [extension |-> EmptyString, err |-> ErrInvalidFileExtension]
        ELSE [extension |-> val, err |-> NoError]

getFileExtension(r) ==
    LET val0 == ToLower(MapIndex(muxVars(r), "extension"))
        val == IF val0 = EmptyString THEN DotJpg ELSE val0
    IN  IF val # DotJpg /\ val # DotWebp
        THEN [extension |-> EmptyString, err |-> ErrInvalidFileExtension]
        ELSE [extension |-> val, err |-> NoError]

\* the blur amount clamped to the allowed range while parsing
getQueryParamsClamped(r) ==
    LET q == Query(r)
        a == Atoi(Get(q, "blur"))
        v == IF a.val < minBlurAmount THEN minBlurAmount
             ELSE IF a.val > maxBlurAmount THEN maxBlurAmount ELSE a.val
    IN  [grayscale |-> "grayscale" \in DOMAIN q,
         blur |-> "blur" \in DOMAIN q,
         blurAmount |-> IF "blur" \in DOMAIN q
                        THEN (IF a.ok THEN v ELSE defaultBlurAmount)
                        ELSE 0]

getQueryParams(r) ==
    LET q == Query(r)
        grayscale == "grayscale" \in DOMAIN q
    IN  IF "blur" \in DOMAIN q
        THEN LET a == Atoi(Get(q, "blur"))
             IN  [grayscale |-> grayscale, blur |-> TRUE,
                  blurAmount |-> IF a.ok THEN a.val ELSE defaultBlurAmount]
        ELSE [grayscale |-> grayscale, blur |-> FALSE, blurAmount |-> 0]

(***************************************************************************)
(* Validation and dimensions.                                              *)
(***************************************************************************)
\* the four rules of Validate, numbered in the order of the code
ValidateRuleFails(i, p, img) ==
    CASE i = 1 -> p.Width > maxImageSize /\ p.Width # img.Width
      [] i = 2 -> p.Height > maxImageSize /\ p.Height # img.Height
      [] i = 3 -> p.Blur /\ p.BlurAmount < minBlurAmount
      [] i = 4 -> p.Blur /\ p.BlurAmount > maxBlurAmount

ValidateRuleError(i) ==
    IF i \in {1, 2} THEN ErrInvalidSize ELSE ErrInvalidBlurAmount

\* the height rule guarded by the width
ValidateHeightGuardedByWidth(p, img) ==
    IF p.Width > maxImageSize /\ p.Width # img.Width THEN ErrInvalidSize
    ELSE IF p.Width > maxImageSize /\ p.Height # img.Height THEN ErrInvalidSize
    ELSE IF p.Blur /\ p.BlurAmount < minBlurAmount THEN ErrInvalidBlurAmount
    ELSE IF p.Blur /\ p.BlurAmount > maxBlurAmount THEN ErrInvalidBlurAmount
    ELSE NoError

\* the size ceiling without the exception for the natural size
ValidateNoNaturalSize(p, img) ==
    IF p.Width > maxImageSize THEN ErrInvalidSize
    ELSE IF p.Height > maxImageSize THEN ErrInvalidSize
    ELSE IF p.Blur /\ p.BlurAmount < minBlurAmount THEN ErrInvalidBlurAmount
    ELSE IF p.Blur /\ p.BlurAmount > maxBlurAmount THEN ErrInvalidBlurAmount
    ELSE NoError

\* the upper limit of the blur amount not checked
ValidateNoMaxBlur(p, img) ==
    IF p.Width > maxImageSize /\ p.Width # img.Width THEN ErrInvalidSize
    ELSE IF p.Height > maxImageSize /\ p.Height # img.Height THEN ErrInvalidSize
    ELSE IF p.Blur /\ p.BlurAmount < minBlurAmount THEN ErrInvalidBlurAmount
    ELSE NoError

\* the blur rules checked before the size rules
ValidateBlurFirst(p, img) ==
    IF p.Blur /\ p.BlurAmount < minBlurAmount THEN ErrInvalidBlurAmount
    ELSE IF p.Blur /\ p.BlurAmount > maxBlurAmount THEN ErrInvalidBlurAmount
    ELSE IF p.Width > maxImageSize /\ p.Width # img.Width THEN ErrInvalidSize
    ELSE IF p.Height > maxImageSize /\ p.Height # img.Height THEN ErrInvalidSize
    ELSE NoError

Validate(p, img) ==
    IF p.Width > maxImageSize /\ p.Width # img.Width THEN ErrInvalidSize
    ELSE IF p.Height > maxImageSize /\ p.Height # img.Height THEN ErrInvalidSize
    ELSE IF p.Blur /\ p.BlurAmount < minBlurAmount THEN ErrInvalidBlurAmount
    ELSE IF p.Blur /\ p.BlurAmount > maxBlurAmount THEN ErrInvalidBlurAmount
    ELSE NoError

\* the height defaulted from the natural width
DimensionsHeightFromWidth(p, img) ==
    LET w == p.Width
        h == p.Height
    IN  [width |-> IF w = 0 THEN img.Width ELSE w,
         height |-> IF h = 0 THEN img.Width ELSE h]

Dimensions(p, img) ==
    LET w == p.Width
        h == p.Height
    IN  [width |-> IF w = 0 THEN img.Width ELSE w,
         height |-> IF h = 0 THEN img.Height ELSE h]

(***************************************************************************)
(* Inputs.  An optional value is a set of at most one element.             *)
(***************************************************************************)
Opt(S) == {{}} \cup {{s} : s \in S}

PathNames == {"size", "width", "height", "extension"}
QueryNames == {"grayscale", "blur"}

\* the path variables the router extracted: only the present ones are keys
MkVars(sz, w, h, e) ==
    LET o == [size |-> sz, width |-> w, height |-> h, extension |-> e]
    IN  [n \in {m \in PathNames : o[m] # {}} |-> CHOOSE x \in o[n] : TRUE]

\* the parsed query: only the present parameters are keys
MkQuery(g, b) ==
    LET o == [grayscale |-> g, blur |-> b]
    IN  [n \in {m \in QueryNames : o[m] # {}} |-> CHOOSE x \in o[n] : TRUE]

MkRequest(sz, w, h, e, g, b) ==
    [vars |-> MkVars(sz, w, h, e), query |-> MkQuery(g, b)]

EmptyRequest == [vars |-> MkVars({}, {}, {}, {}), query |-> MkQuery({}, {})]

SizeStrings ==
    {<<"6", "0", "0", "0">>, <<"0">>, <<"-", "1">>, <<"a", "b", "c">>, <<>>}
WidthStrings ==
    {<<"2", "0", "0">>, <<"6", "0", "0", "0">>, <<"+", "7">>,
     <<"1", "2", "a">>, <<"0">>}
HeightStrings ==
    {<<"3", "0", "0">>, <<"5", "0", "0", "1">>, <<"-">>, <<"0">>, <<"x">>}
ExtensionStrings ==
    {<<>>, DotJpg, DotWebp, <<".", "J", "P", "G">>, <<".", "W", "E", "B", "P">>,
     <<".", "J", "p", "g">>, <<".", "p", "n", "g">>, <<"j", "p", "g">>,
     <<".">>, <<".", "j", "p", "g", "x">>, <<"w", "e", "b", "p">>}
BlurStrings ==
    {<<>>, <<"3">>, <<"a", "b", "c">>, <<"0">>, <<"1">>, <<"1", "0">>,
     <<"1", "1">>, <<"-", "2">>, <<"+", "4">>, <<"5", "x">>}
BlurValues ==
    {<<s>> : s \in BlurStrings}
        \cup {<<<<"a", "b", "c">>, <<"3">>>>, <<<<"3">>, <<"a", "b", "c">>>>}
GrayscaleValues == {<<<<>>>>, <<<<"1">>>>}

\* every combination of the size variables, with a few extensions and queries
SizeRequests ==
    {MkRequest(sz, w, h, e, {}, b) :
        sz \in Opt(SizeStrings), w \in Opt(WidthStrings),
        h \in Opt(HeightStrings), e \in Opt({<<".", "p", "n", "g">>}),
        b \in Opt({<<<<"0">>>>})}

\* every extension, over sizes that resolve and sizes that do not
ExtensionRequests ==
    {MkRequest(sz, w, w, e, {}, {}) :
        sz \in Opt({<<"2", "0", "0">>}), w \in Opt({<<"0">>}),
        e \in Opt(ExtensionStrings)}

\* every query, over sizes that resolve
QueryRequests ==
    {MkRequest(sz, {<<"0">>}, {<<"0">>}, e, g, b) :
        sz \in Opt({<<"6", "0", "0", "0">>}), e \in Opt({DotWebp}),
        g \in Opt(GrayscaleValues), b \in Opt(BlurValues)}

Requests == SizeRequests \cup ExtensionRequests \cup QueryRequests

\* the requests served side by side
ConcurrentRequests ==
    {MkRequest({<<"2", "0", "0">>}, {}, {}, {}, {}, {<<<<"3">>>>}),
     MkRequest({}, {<<"0">>}, {<<"6", "0", "0", "0">>}, {DotWebp},
               {<<<<>>>>}, {}),
     MkRequest({<<"a", "b", "c">>}, {}, {<<"0">>}, {}, {}, {}),
     MkRequest({<<"0">>}, {}, {}, {<<".", "p", "n", "g">>}, {}, {})}

\* database.Image: only the natural width and height are read
Images == [Width : {800, 3000, 6000}, Height : {600, 5001}]
ConcurrentImages == [Width : {800}, Height : {6000}]

\* Params values a caller builds itself (the struct and its fields are
\* exported)
DirectParams ==
    [Width : {-1, 0, 200, 5000, 5001, 6000}, Height : {0, 300, 5001, 7000},
     Blur : BOOLEAN, BlurAmount : -1..MaxBlurSample, Grayscale : {FALSE},
     Extension : {DotJpg, DotWebp}]

(***************************************************************************)
(* State.  pc[h] is the position of handler h:                             *)
(*   "idle"                 no request                                     *)
(*   "getSize", "getFileExtension", "getQueryParams"   inside GetParams    *)
(*   "failed"               GetParams returned an error                    *)
(*   "resolved"             the handler holds a *Params                    *)
(*   "validated", "rejected"  Validate returned nil, or an error           *)
(*   "done"                 Dimensions returned                            *)
(***************************************************************************)
Pending == "pending"
NoDims == [width |-> 0, height |-> 0]

InitLocals ==
    /\ width = [h \in Handlers |-> 0]
    /\ height = [h \in Handlers |-> 0]
    /\ extension = [h \in Handlers |-> EmptyString]
    /\ verr = [h \in Handlers |-> Pending]
    /\ dims = [h \in Handlers |-> NoDims]

\* one request arrives
InitRequest ==
    /\ \E r \in Requests :
          req = [h \in Handlers |-> IF h = 1 THEN r ELSE EmptyRequest]
    /\ \E img \in Images : image = [h \in Handlers |-> img]
    /\ pc = [h \in Handlers |-> IF h = 1 THEN "getSize" ELSE "idle"]
    /\ params = [h \in Handlers |-> <<>>]
    /\ err = [h \in Handlers |-> Pending]

\* a caller holds a Params value it built itself
InitDirect ==
    /\ req = [h \in Handlers |-> EmptyRequest]
    /\ \E img \in Images : image = [h \in Handlers |-> img]
    /\ pc = [h \in Handlers |-> IF h = 1 THEN "resolved" ELSE "idle"]
    /\ \E p \in DirectParams :
          params = [h \in Handlers |-> IF h = 1 THEN <<p>> ELSE <<>>]
    /\ err = [h \in Handlers |-> Pending]

\* every handler serves a request
InitConcurrent ==
    /\ req \in [Handlers -> ConcurrentRequests]
    /\ image \in [Handlers -> ConcurrentImages]
    /\ pc = [h \in Handlers |-> "getSize"]
    /\ params = [h \in Handlers |-> <<>>]
    /\ err = [h \in Handlers |-> Pending]

Init == InitLocals /\ (InitRequest \/ InitDirect \/ InitConcurrent)

(***************************************************************************)
(* Steps of GetParams.                                                     *)
(***************************************************************************)
\* width, height, err := getSize(r); if err != nil { return nil, err }
GetSizeStep(h) ==
    /\ pc[h] = "getSize"
    /\ LET s == getSize(req[h])
       IN  IF s.err # NoError
           THEN /\ params' = [params EXCEPT ![h] = <<>>]
                /\ err' = [err EXCEPT ![h] = s.err]
                /\ pc' = [pc EXCEPT ![h] = "failed"]
                /\ UNCHANGED <<width, height>>
           ELSE /\ width' = [width EXCEPT ![h] = s.width]
                /\ height' = [height EXCEPT ![h] = s.height]
                /\ pc' = [pc EXCEPT ![h] = "getFileExtension"]
                /\ UNCHANGED <<params, err>>
    /\ UNCHANGED <<req, image, extension, verr, dims>>

\* extension, err := getFileExtension(r); if err != nil { return nil, err }
GetFileExtensionStep(h) ==
    /\ pc[h] = "getFileExtension"
    /\ LET e == getFileExtension(req[h])
       IN  IF e.err # NoError
           THEN /\ params' = [params EXCEPT ![h] = <<>>]
                /\ err' = [err EXCEPT ![h] = e.err]
                /\ pc' = [pc EXCEPT ![h] = "failed"]
                /\ UNCHANGED extension
           ELSE /\ extension' = [extension EXCEPT ![h] = e.extension]
                /\ pc' = [pc EXCEPT ![h] = "getQueryParams"]
                /\ UNCHANGED <<params, err>>
    /\ UNCHANGED <<req, image, width, height, verr, dims>>

\* GetParams keeping width, height and extension in package-level variables
\* that every request writes (here the slots of handler 1)
GetQueryParamsStepSharedLocals(h) ==
    /\ pc[h] = "getQueryParams"
    /\ LET q == getQueryParams(req[h])
       IN  params' = [params EXCEPT ![h] =
                        <<[Width |-> width[1], Height |-> height[1],
                           Blur |-> q.blur, BlurAmount |-> q.blurAmount,
                           Grayscale |-> q.grayscale,
                           Extension |-> extension[1]]>>]
    /\ err' = [err EXCEPT ![h] = NoError]
    /\ pc' = [pc EXCEPT ![h] = "resolved"]
    /\ UNCHANGED <<req, image, width, height, extension, verr, dims>>

\* grayscale, blur, blurAmount := getQueryParams(r); return params, nil
GetQueryParamsStep(h) ==
    /\ pc[h] = "getQueryParams"
    /\ LET q == getQueryParams(req[h])
       IN  params' = [params EXCEPT ![h] =
                        <<[Width |-> width[h], Height |-> height[h],
                           Blur |-> q.blur, BlurAmount |-> q.blurAmount,
                           Grayscale |-> q.grayscale,
                           Extension |-> extension[h]]>>]
    /\ err' = [err EXCEPT ![h] = NoError]
    /\ pc' = [pc EXCEPT ![h] = "resolved"]
    /\ UNCHANGED <<req, image, width, height, extension, verr, dims>>

(***************************************************************************)
(* The calls on a resolved Params.                                         *)
(***************************************************************************)
\* err := p.Validate(image)
ValidateStep(h) ==
    /\ pc[h] = "resolved"
    /\ verr' = [verr EXCEPT ![h] = Validate(params[h][1], image[h])]
    /\ pc' = [pc EXCEPT ![h] =
                IF Validate(params[h][1], image[h]) = NoError
                THEN "validated" ELSE "rejected"]
    /\ UNCHANGED <<req, image, width, height, extension, params, err, dims>>

\* Dimensions storing the defaulted size back through its pointer receiver
DimensionsStepWriteBack(h) ==
    /\ pc[h] \in {"resolved", "validated"}
    /\ dims' = [dims EXCEPT ![h] = Dimensions(params[h][1], image[h])]
    /\ params' = [params EXCEPT ![h] =
                    <<[params[h][1] EXCEPT
                         !.Width = Dimensions(params[h][1], image[h]).width,
                         !.Height = Dimensions(params[h][1], image[h]).height]>>]
    /\ pc' = [pc EXCEPT ![h] = "done"]
    /\ UNCHANGED <<req, image, width, height, extension, err, verr>>

\* width, height := p.Dimensions(image), after Validate or without it
DimensionsStep(h) ==
    /\ pc[h] \in {"resolved", "validated"}
    /\ dims' = [dims EXCEPT ![h] = Dimensions(params[h][1], image[h])]
    /\ pc' = [pc EXCEPT ![h] = "done"]
    /\ UNCHANGED <<req, image, width, height, extension, params, err, verr>>

Next ==
    \E h \in Handlers :
        \/ GetSizeStep(h)
        \/ GetFileExtensionStep(h)
        \/ GetQueryParamsStep(h)
        \/ ValidateStep(h)
        \/ DimensionsStep(h)

Spec == Init /\ [][Next]_vars

TypeOK ==
    /\ pc \in [Handlers -> {"idle", "getSize", "getFileExtension",
                            "getQueryParams", "failed", "resolved",
                            "validated", "rejected", "done"}]
    /\ err \in [Handlers -> {Pending, NoError, ErrInvalidSize,
                             ErrInvalidFileExtension}]
    /\ verr \in [Handlers -> {Pending, NoError, ErrInvalidSize,
                              ErrInvalidBlurAmount}]
    /\ \A h \in Handlers : Len(params[h]) <= 1

(***************************************************************************)
(* Vocabulary of the properties.                                           *)
(***************************************************************************)
\* GetParams has returned in handler h
Returned(h) == err[h] # Pending

\* the path variable is present and parses as an integer
HasInt(r, name) == name \in DOMAIN r.vars /\ Atoi(r.vars[name]).ok

IntOf(r, name) == Atoi(r.vars[name]).val

SizeResolves(r) ==
    HasInt(r, "size") \/ (HasInt(r, "width") /\ HasInt(r, "height"))

ExpectedWidth(r) ==
    IF HasInt(r, "size") THEN IntOf(r, "size") ELSE IntOf(r, "width")

ExpectedHeight(r) ==
    IF HasInt(r, "size") THEN IntOf(r, "size") ELSE IntOf(r, "height")

\* the extension variable, absent counting as empty, lowercased and defaulted
NormalizedExtension(r) ==
    LET raw == IF "extension" \in DOMAIN r.vars THEN r.vars["extension"]
               ELSE <<>>
        low == ToLower(raw)
    IN  IF low = <<>> THEN DotJpg ELSE low

AllowedExtensions == {DotJpg, DotWebp}

(***************************************************************************)
(* C1: size resolution.  If size is present and parses as an integer S the *)
(* size resolves to Width = Height = S whatever width and height are;      *)
(* otherwise, if width and height are both present and parse as W and H,   *)
(* it resolves to Width = W and Height = H; otherwise GetParams fails with *)
(* InvalidSize and returns no Params.                                      *)
(***************************************************************************)
C1_SizeResolution ==
    \A h \in Handlers :
        LET r == req[h]
        IN  /\ HasInt(r, "size") =>
                  getSize(r) = [width |-> IntOf(r, "size"),
                                height |-> IntOf(r, "size"), err |-> NoError]
            /\ (~HasInt(r, "size") /\ HasInt(r, "width") /\ HasInt(r, "height"))
                  => getSize(r) = [width |-> IntOf(r, "width"),
                                   height |-> IntOf(r, "height"),
                                   err |-> NoError]
            /\ ~SizeResolves(r) => getSize(r).err = ErrInvalidSize
            /\ pc[h] \in {"getFileExtension", "getQueryParams"} =>
                  /\ SizeResolves(r)
                  /\ width[h] = ExpectedWidth(r)
                  /\ height[h] = ExpectedHeight(r)
            /\ (Returned(h) /\ err[h] = NoError) =>
                  /\ SizeResolves(r)
                  /\ params[h][1].Width = ExpectedWidth(r)
                  /\ params[h][1].Height = ExpectedHeight(r)
            /\ (Returned(h) /\ ~SizeResolves(r)) =>
                  /\ err[h] = ErrInvalidSize
                  /\ params[h] = <<>>

\* size wins over a valid width and height that differ from it
C1_Witness ==
    \E h \in Handlers :
        /\ err[h] = NoError
        /\ HasInt(req[h], "size")
        /\ HasInt(req[h], "width")
        /\ HasInt(req[h], "height")
        /\ IntOf(req[h], "width") # IntOf(req[h], "size")
        /\ IntOf(req[h], "height") # IntOf(req[h], "size")
        /\ params[h][1].Width = IntOf(req[h], "size")
        /\ params[h][1].Height = IntOf(req[h], "size")

(***************************************************************************)
(* C2 as stated: every Params returned by GetParams has Extension ".jpg"   *)
(* or ".webp", and a request whose lowercased, defaulted extension is      *)
(* anything else fails with InvalidFileExtension.                          *)
(***************************************************************************)
C2_AsStated ==
    \A h \in Handlers :
        Returned(h) =>
            /\ err[h] = NoError => params[h][1].Extension \in AllowedExtensions
            /\ NormalizedExtension(req[h]) \notin AllowedExtensions =>
                  /\ err[h] = ErrInvalidFileExtension
                  /\ params[h] = <<>>

(***************************************************************************)
(* C2 amended: every Params returned by GetParams has Extension ".jpg" or  *)
(* ".webp", namely the lowercased, defaulted extension variable; a request *)
(* whose lowercased, defaulted extension is anything else produces no      *)
(* Params: it fails with InvalidFileExtension when its size resolves and   *)
(* with InvalidSize when it does not, the size being resolved first.       *)
(***************************************************************************)
C2_Extension ==
    \A h \in Handlers :
        LET r == req[h]
            n == NormalizedExtension(r)
        IN  /\ n \in AllowedExtensions =>
                  getFileExtension(r) = [extension |-> n, err |-> NoError]
            /\ n \notin AllowedExtensions =>
                  getFileExtension(r).err = ErrInvalidFileExtension
            /\ Returned(h) =>
                  /\ err[h] = NoError =>
                        /\ params[h][1].Extension \in AllowedExtensions
                        /\ params[h][1].Extension = n
                  /\ (SizeResolves(r) /\ n \in AllowedExtensions) =>
                        err[h] = NoError
                  /\ n \notin AllowedExtensions =>
                        /\ params[h] = <<>>
                        /\ err[h] = IF SizeResolves(r)
                                    THEN ErrInvalidFileExtension
                                    ELSE ErrInvalidSize

\* an extension in upper case is accepted and returned in lower case
C2_Witness ==
    \E h \in Handlers :
        /\ err[h] = NoError
        /\ "extension" \in DOMAIN req[h].vars
        /\ req[h].vars["extension"] = <<".", "W", "E", "B", "P">>
        /\ params[h][1].Extension = DotWebp

(***************************************************************************)
(* C3: query flags.  getQueryParams never fails; Grayscale is true iff the *)
(* grayscale parameter is present; Blur is true iff the blur parameter is  *)
(* present; when blur is present BlurAmount is the integer value of blur   *)
(* if it parses as an integer, whatever its range, and 5 otherwise.        *)
(***************************************************************************)
C3_QueryFlags ==
    \A h \in Handlers :
        LET r == req[h]
            q == r.query
            res == getQueryParams(r)
        IN  /\ res.grayscale = ("grayscale" \in DOMAIN q)
            /\ res.blur = ("blur" \in DOMAIN q)
            /\ "blur" \in DOMAIN q =>
                  res.blurAmount = IF Atoi(q["blur"][1]).ok
                                   THEN Atoi(q["blur"][1]).val
                                   ELSE 5
            /\ pc[h] = "getQueryParams" => ~Returned(h)
            /\ (Returned(h) /\ SizeResolves(r)
                  /\ NormalizedExtension(r) \in AllowedExtensions) =>
                  /\ err[h] = NoError
                  /\ params[h][1].Grayscale = ("grayscale" \in DOMAIN q)
                  /\ params[h][1].Blur = ("blur" \in DOMAIN q)
                  /\ "blur" \in DOMAIN q =>
                        params[h][1].BlurAmount =
                            IF Atoi(q["blur"][1]).ok
                            THEN Atoi(q["blur"][1]).val
                            ELSE 5

\* a blur amount above the allowed range is kept by the resolution
C3_Witness ==
    \E h \in Handlers :
        /\ err[h] = NoError
        /\ params[h][1].Blur
        /\ params[h][1].BlurAmount = 11

(***************************************************************************)
(* Vocabulary of the properties on Validate and Dimensions.                *)
(***************************************************************************)
\* Validate has returned in handler h
Validated(h) == verr[h] # Pending

SizeRuleFails(p, img) ==
    \/ (p.Width > 5000 /\ p.Width # img.Width)
    \/ (p.Height > 5000 /\ p.Height # img.Height)

BlurRuleFails(p) == p.Blur /\ (p.BlurAmount < 1 \/ p.BlurAmount > 10)

\* the orders in which the four rules can be checked
RuleOrders ==
    {o \in [1..4 -> 1..4] : \A i, j \in 1..4 : o[i] = o[j] => i = j}

\* the rules checked in the order o, the first failing rule deciding
ValidateInOrder(p, img, o) ==
    LET failing == {k \in 1..4 : ValidateRuleFails(o[k], p, img)}
    IN  IF failing = {} THEN NoError
        ELSE ValidateRuleError(
                 o[CHOOSE k \in failing : \A m \in failing : k <= m])

(***************************************************************************)
(* C4: validated Params.  If Validate(p, img) returns no error then        *)
(* (p.Width <= 5000 or p.Width = img.Width) and (p.Height <= 5000 or       *)
(* p.Height = img.Height) and (p.Blur implies 1 <= p.BlurAmount <= 10).    *)
(***************************************************************************)
C4_ValidatedParams ==
    \A h \in Handlers :
        verr[h] = NoError =>
            LET p == params[h][1]
                img == image[h]
            IN  /\ p.Width <= 5000 \/ p.Width = img.Width
                /\ p.Height <= 5000 \/ p.Height = img.Height
                /\ p.Blur => (1 <= p.BlurAmount /\ p.BlurAmount <= 10)

\* a blurred Params of the natural size, above the ceiling, is validated
C4_Witness ==
    \E h \in Handlers :
        /\ verr[h] = NoError
        /\ params[h][1].Width > 5000
        /\ params[h][1].Height > 5000
        /\ params[h][1].Blur
        /\ params[h][1].BlurAmount = 10

(***************************************************************************)
(* C5: natural size.  A Params whose Width and Height equal the natural    *)
(* width and height of the image is never rejected with InvalidSize, also  *)
(* above 5000; a Width above 5000 that differs from the natural width is   *)
(* rejected with InvalidSize.                                              *)
(***************************************************************************)
C5_NaturalSize ==
    \A h \in Handlers :
        Validated(h) =>
            LET p == params[h][1]
                img == image[h]
            IN  /\ (p.Width = img.Width /\ p.Height = img.Height) =>
                      verr[h] # ErrInvalidSize
                /\ (p.Width > 5000 /\ p.Width # img.Width) =>
                      verr[h] = ErrInvalidSize

\* the natural size 6000 x 5001 passes the validation
C5_Witness ==
    \E h \in Handlers :
        /\ verr[h] = NoError
        /\ image[h].Width = 6000
        /\ image[h].Height = 5001
        /\ params[h][1].Width = 6000
        /\ params[h][1].Height = 5001

(***************************************************************************)
(* C6 as stated: for every Params with Blur set and every image, a         *)
(* BlurAmount below 1 or above 10 makes Validate return InvalidBlurAmount. *)
(***************************************************************************)
C6_AsStated ==
    \A h \in Handlers :
        (Validated(h) /\ BlurRuleFails(params[h][1])) =>
            verr[h] = ErrInvalidBlurAmount

(***************************************************************************)
(* C6 amended: for every Params with Blur set and every image, a           *)
(* BlurAmount below 1 or above 10 makes Validate return an error:          *)
(* InvalidBlurAmount when neither size rule fails, and InvalidSize when a  *)
(* size rule fails, the size rules being checked first.                    *)
(***************************************************************************)
C6_BlurAmount ==
    \A h \in Handlers :
        (Validated(h) /\ BlurRuleFails(params[h][1])) =>
            verr[h] = IF SizeRuleFails(params[h][1], image[h])
                      THEN ErrInvalidSize
                      ELSE ErrInvalidBlurAmount

\* a blur amount of 11 is rejected with InvalidBlurAmount
C6_Witness ==
    \E h \in Handlers :
        /\ verr[h] = ErrInvalidBlurAmount
        /\ params[h][1].Blur
        /\ params[h][1].BlurAmount = 11

(***************************************************************************)
(* C7 as stated: checking the four rules of Validate in any order, the     *)
(* first failing rule deciding, gives the result of the code.              *)
(***************************************************************************)
C7_AsStated ==
    \A h \in Handlers :
        Validated(h) =>
            \A o \in RuleOrders :
                ValidateInOrder(params[h][1], image[h], o) = verr[h]

(***************************************************************************)
(* C7 amended: whether Validate returns an error does not depend on the    *)
(* order of its four rules, and neither does the error unless a size rule  *)
(* and a blur rule both fail; then the code returns InvalidSize, where an  *)
(* order that checks the failing blur rule first gives InvalidBlurAmount.  *)
(***************************************************************************)
C7_RuleOrder ==
    \A h \in Handlers :
        Validated(h) =>
            LET p == params[h][1]
                img == image[h]
            IN  /\ \A o \in RuleOrders :
                      /\ (ValidateInOrder(p, img, o) = NoError)
                            <=> (verr[h] = NoError)
                      /\ ~(SizeRuleFails(p, img) /\ BlurRuleFails(p)) =>
                            ValidateInOrder(p, img, o) = verr[h]
                /\ (SizeRuleFails(p, img) /\ BlurRuleFails(p)) =>
                      /\ verr[h] = ErrInvalidSize
                      /\ \E o \in RuleOrders :
                            ValidateInOrder(p, img, o) = ErrInvalidBlurAmount

\* a size rule and a blur rule both fail and the code reports the size
C7_Witness ==
    \E h \in Handlers :
        /\ verr[h] = ErrInvalidSize
        /\ SizeRuleFails(params[h][1], image[h])
        /\ BlurRuleFails(params[h][1])

(***************************************************************************)
(* C8: Dimensions is total and only defaults: it returns (w, h) with       *)
(* w = img.Width if p.Width = 0 and p.Width otherwise, h = img.Height if   *)
(* p.Height = 0 and p.Height otherwise; non-zero values, negative or above *)
(* 5000, pass through unchanged, validated or not.                         *)
(***************************************************************************)
C8_Dimensions ==
    \A h \in Handlers :
        /\ pc[h] \in {"resolved", "validated"} => ENABLED DimensionsStep(h)
        /\ pc[h] = "done" =>
              LET p == params[h][1]
                  img == image[h]
              IN  /\ dims[h].width = IF p.Width = 0 THEN img.Width ELSE p.Width
                  /\ dims[h].height =
                        IF p.Height = 0 THEN img.Height ELSE p.Height

\* a zero width is defaulted while a height of 7000 that was never validated
\* and is not the natural height passes through
C8_Witness ==
    \E h \in Handlers :
        /\ pc[h] = "done"
        /\ verr[h] = Pending
        /\ params[h][1].Width = 0
        /\ params[h][1].Height = 7000
        /\ dims[h].width = image[h].Width
        /\ dims[h].height = 7000

(***************************************************************************)
(* C9: resolution is deterministic and isolated.  Two resolutions of the   *)
(* same request, interleaved in any way with each other and with the       *)
(* resolutions of other requests, end with the same error, or with Params  *)
(* equal in all six fields.                                                *)
(***************************************************************************)
C9_Deterministic ==
    \A h1, h2 \in Handlers :
        (Returned(h1) /\ Returned(h2) /\ req[h1] = req[h2]) =>
            /\ err[h1] = err[h2]
            /\ params[h1] = params[h2]

\* two handlers resolved the same request to a Params while a third one
\* resolved another request
C9_Witness ==
    \E h1, h2, h3 \in Handlers :
        /\ h1 # h2
        /\ req[h1] = req[h2]
        /\ err[h1] = NoError
        /\ err[h2] = NoError
        /\ params[h1] # <<>>
        /\ params[h1] = params[h2]
        /\ req[h3] # req[h1]
        /\ Returned(h3)

(***************************************************************************)
(* C10: the pipeline.  If GetParams succeeds with p and Validate(p, img)   *)
(* returns no error, the pair (w, h) of Dimensions(p, img) satisfies       *)
(* (w <= 5000 or w = img.Width) and (h <= 5000 or h = img.Height); a       *)
(* requested 0 gives the natural dimension, also above 5000; and p is the  *)
(* same value before and after Validate and Dimensions.                    *)
(***************************************************************************)
C10_Bound ==
    \A h \in Handlers :
        (err[h] = NoError /\ verr[h] = NoError /\ pc[h] = "done") =>
            LET p == params[h][1]
                img == image[h]
            IN  /\ dims[h].width <= 5000 \/ dims[h].width = img.Width
                /\ dims[h].height <= 5000 \/ dims[h].height = img.Height
                /\ p.Width = 0 => dims[h].width = img.Width
                /\ p.Height = 0 => dims[h].height = img.Height

C10_ParamsKept ==
    \A h \in Handlers : params[h] # <<>> => params'[h] = params[h]

C10_Pipeline == []C10_Bound /\ [][C10_ParamsKept]_vars

\* a request for width 0 of an image 6000 wide went through the pipeline
C10_Witness ==
    \E h \in Handlers :
        /\ err[h] = NoError
        /\ verr[h] = NoError
        /\ pc[h] = "done"
        /\ params[h][1].Width = 0
        /\ image[h].Width = 6000
        /\ dims[h].width = 6000

====
